---- MODULE Spec2Model ----
(***************************************************************************)
(* The encrypted notes vault (src/main.rs): one invocation of the program  *)
(* prompts for a password, derives the working key, loads vault.json,      *)
(* performs one of New / List / Read / Delete and saves when the           *)
(* collection changed.  The persisted file is modelled as a sequence of    *)
(* tokens (abstract bytes), the cipher symbolically.                       *)
(***************************************************************************)
EXTENDS Integers, Sequences, FiniteSets, TLC

\* ----------------------------------------------------------------- bounds
\* A New is started only while vault.json holds fewer than MaxNotes records
\* (caps the growth of the vault).
MaxNotes == 3

\* ------------------------------------------------------- program constants
\* let mut nonce_bytes = [0u8; 12]
NONCE_LEN == 12

\* ------------------------------------------------------------ input domains
Titles == {"t1", "t2"}
Contents == {"c1", "c2"}
Passwords == {"A", "B"}
\* identities of the 12-byte values OsRng can produce
NonceIds == {1, 2}
\* one invocation at a time is process 1; process 2 is the concurrent one
Procs == {1, 2}

\* ------------------------------------------------------ Cryptographic part
\* SHA-256 of the password bytes: a function of the password alone,
\* injective on the passwords considered.
derive_key_from_password(password) == [sha256 |-> password]

\* a byte string holding a nonce: which value, and how many bytes
NonceBytes(id, len) == [id |-> id, len |-> len]

\* AES-256-GCM encryption: the ciphertext with its tag, bound to key and nonce
AeadEncrypt(key, nonce, plaintext) ==
    [key |-> key, nonce |-> nonce.id, pt |-> plaintext, intact |-> TRUE]

\* AES-256-GCM decryption: the tag verifies only for the same key and nonce
\* on ciphertext bytes that are complete and unmodified
AeadDecrypt(key, nonce, ct) ==
    IF ct.intact /\ ct.key = key /\ ct.nonce = nonce.id
    THEN [ok |-> TRUE, pt |-> ct.pt]
    ELSE [ok |-> FALSE]

\* base64 STANDARD engine: text made by encode decodes to the same bytes,
\* any other text is rejected
B64Encode(bytes) == [b64 |-> TRUE, bytes |-> bytes]
B64Decode(text) ==
    IF text.b64 THEN [ok |-> TRUE, bytes |-> text.bytes] ELSE [ok |-> FALSE]

\* plaintext bytes that are not valid UTF-8
NonUtf8Plain == "\\xff"
IsUtf8(bytes) == bytes # NonUtf8Plain

\* The nonce text a broken encrypt would store: the zeroed buffer, encoded
\* before OsRng filled it.
NonceTextUnfilled(nonce_bytes) == B64Encode(NonceBytes(0, NONCE_LEN))
\* general_purpose::STANDARD.encode(&nonce_bytes)
NonceText(nonce_bytes) == B64Encode(nonce_bytes)

\* encrypt_note_content with the nonce OsRng drew: (ciphertext_b64, nonce_b64)
encrypt_note_content(content, key, nonceId) ==
    LET nonce_bytes == NonceBytes(nonceId, NONCE_LEN)
    IN  [content |-> B64Encode(AeadEncrypt(key, nonce_bytes, content)),
         nonce   |-> NonceText(nonce_bytes)]

Some(v) == [tag |-> "Some", val |-> v]
None == [tag |-> "None", val |-> ""]
Panic == [tag |-> "Panic", val |-> ""]

\* decrypt_note_content: Option<String>, or the panic of Nonce::from_slice
\* on a slice that is not NONCE_LEN bytes long
decrypt_note_content(ciphertext_b64, nonce_b64, key) ==
    LET ciphertext == B64Decode(ciphertext_b64)
        nonce_bytes == B64Decode(nonce_b64)
    IN  IF ~ciphertext.ok THEN None
        ELSE IF ~nonce_bytes.ok THEN None
        ELSE IF nonce_bytes.bytes.len # NONCE_LEN THEN Panic
        ELSE LET plaintext == AeadDecrypt(key, nonce_bytes.bytes, ciphertext.bytes)
             IN  IF ~plaintext.ok THEN None
                 ELSE IF ~IsUtf8(plaintext.pt) THEN None
                 ELSE Some(plaintext.pt)

\* ------------------------------------------------------------------ Notes
Note(title, content, nonce) ==
    [title |-> title, content |-> content, nonce |-> nonce]

Decrypt(note, key) == decrypt_note_content(note.content, note.nonce, key)

\* ------------------------------------------------------- the persisted file
\* tokens of the file's text
LBracket == [tok |-> "["]
RBracket == [tok |-> "]"]
NoteTok(n) == [tok |-> "note", note |-> n]
\* text that is not JSON at all
JunkTok == [tok |-> "junk"]
\* valid JSON of the wrong structure (an object where the array is expected)
ObjectTok == [tok |-> "{}"]
\* a byte sequence that is not valid UTF-8
BadByteTok == [tok |-> "\\xff"]

\* serde_json::to_string_pretty(notes)
Serialize(notes) ==
    <<LBracket>> \o [i \in 1..Len(notes) |-> NoteTok(notes[i])] \o <<RBracket>>

\* serde_json::from_str::<Vec<Note>>(contents)
Parse(text) ==
    IF /\ Len(text) >= 2
       /\ text[1] = LBracket
       /\ text[Len(text)] = RBracket
       /\ \A i \in 2..(Len(text) - 1) : text[i].tok = "note"
    THEN [ok |-> TRUE, notes |-> [i \in 1..(Len(text) - 2) |-> text[i + 1].note]]
    ELSE [ok |-> FALSE]

\* read_to_string fails on bytes that are not UTF-8
ValidUtf8(text) == \A i \in 1..Len(text) : text[i] # BadByteTok

\* load_notes on a file system entry f = [exists, text]
load_notes(f) ==
    IF f.exists
    THEN IF ~ValidUtf8(f.text) THEN [panic |-> TRUE, notes |-> <<>>]
         ELSE LET parsed == Parse(f.text)
              IN  [panic |-> FALSE,
                   notes |-> IF parsed.ok THEN parsed.notes ELSE <<>>]
    ELSE [panic |-> FALSE, notes |-> <<>>]

\* File::create: the file exists and is empty afterwards
Truncated == [exists |-> TRUE, text |-> <<>>]

\* write_all through a descriptor at offset 0: the bytes written replace the
\* head of the file, bytes beyond them stay
WriteAt0(f, data) ==
    [exists |-> TRUE,
     text |-> data \o SubSeq(f.text, Len(data) + 1, Len(f.text))]

\* --------------------------------------------------------- printed output
Msg(kind, arg) == [msg |-> kind, arg |-> arg]
NoteAdded == Msg("Note added.", "")
ListHeader == Msg("Decryptable notes:", "")
ListedTitle(t) == Msg("title", t)
ReadContent(c) == Msg("Content", c)
ReadFailed == Msg("Failed to decrypt. Wrong password?", "")
ReadNotFound == Msg("Note not found.", "")
DeletedNote(t) == Msg("deleted", t)
CannotDelete(t) == Msg("Cannot delete: Wrong password.", t)
DeleteNothing == Msg("Note not found or password mismatch.", "")

\* ------------------------------------------------------------- the handlers
\* The loop of List over the notes: the titles printed, and whether a
\* decryption panicked (nothing after the panic runs).
RECURSIVE ListLoop(_, _)
ListLoop(ns, key) ==
    IF ns = <<>> THEN [out |-> <<>>, panic |-> FALSE]
    ELSE LET d == Decrypt(Head(ns), key)
         IN  IF d = Panic THEN [out |-> <<>>, panic |-> TRUE]
             ELSE LET rest == ListLoop(Tail(ns), key)
                  IN  [out |-> (IF d.tag = "Some"
                                THEN <<ListedTitle(Head(ns).title)>>
                                ELSE <<>>) \o rest.out,
                       panic |-> rest.panic]

\* notes.iter().find(|n| n.title == title): index of the first match, 0 if none
FindTitle(ns, title) ==
    LET hits == {i \in 1..Len(ns) : ns[i].title = title}
    IN  IF hits = {} THEN 0 ELSE CHOOSE i \in hits : \A j \in hits : i <= j

\* The Read arm.
ReadArm(ns, title, key) ==
    LET i == FindTitle(ns, title)
    IN  IF i = 0 THEN [out |-> <<ReadNotFound>>, panic |-> FALSE]
        ELSE LET d == Decrypt(ns[i], key)
             IN  IF d = Panic THEN [out |-> <<>>, panic |-> TRUE]
                 ELSE IF d.tag = "Some"
                      THEN [out |-> <<ReadContent(d.val)>>, panic |-> FALSE]
                      ELSE [out |-> <<ReadFailed>>, panic |-> FALSE]

\* notes.retain(..) of the Delete arm: the notes kept, the messages printed,
\* and whether a decryption panicked.
RECURSIVE Retain(_, _, _)
Retain(ns, title, key) ==
    IF ns = <<>> THEN [kept |-> <<>>, out |-> <<>>, panic |-> FALSE]
    ELSE LET n == Head(ns)
             d == IF n.title = title THEN Decrypt(n, key) ELSE None
         IN  IF d = Panic THEN [kept |-> <<>>, out |-> <<>>, panic |-> TRUE]
             ELSE LET rest == Retain(Tail(ns), title, key)
                  IN  IF n.title # title
                      THEN [rest EXCEPT !.kept = <<n>> \o @]
                      ELSE IF d.tag = "Some"
                           THEN [rest EXCEPT !.out = <<DeletedNote(n.title)>> \o @]
                           ELSE [rest EXCEPT !.kept = <<n>> \o @,
                                             !.out = <<CannotDelete(n.title)>> \o @]

\* A Delete that saves whether or not anything was removed.
ShouldSaveAlways(len_before, len_after) == len_after <= len_before
\* if notes.len() < len_before
ShouldSave(len_before, len_after) == len_after < len_before

\* A push that puts the new note in front.
PushFront(ns, note) == <<note>> \o ns
\* notes.push(note)
Push(ns, note) == Append(ns, note)

\* ------------------------------------------------------------------ state
VARIABLES
    fs,         \* vault.json: [exists, text]
    pc,         \* per process: where the invocation is
    cmd,        \* per process: the parsed command [op, title, content]
    key,        \* per process: the working key
    notes,      \* per process: the in-memory collection
    out,        \* per process: the messages printed so far
    loaded,     \* history: what load_notes returned to the invocation
    snap,       \* history: vault.json when the invocation began
    saves,      \* history: calls of save_notes made by the invocation
    lastSaver,  \* history: the process whose write_all ran last (0: none)
    prev        \* history: the invocation before this one, when it was a New
                \* that completed on a collection without a note of its title

vars == <<fs, pc, cmd, key, notes, out, loaded, snap, saves, lastSaver, prev>>

NoCmd == [op |-> "none", title |-> "", content |-> ""]
NoKey == [sha256 |-> "-"]
NoFile == [exists |-> FALSE, text |-> <<>>]
NoPrev == [fresh |-> FALSE, title |-> "", content |-> "", key |-> NoKey]

Commands ==
    {[op |-> "New", title |-> t, content |-> c] : t \in Titles, c \in Contents}
    \cup {[op |-> "List", title |-> "", content |-> ""]}
    \cup {[op |-> o, title |-> t, content |-> ""] : o \in {"Read", "Delete"}, t \in Titles}

Ended(p) == pc[p] \in {"done", "aborted", "aborted_load"}

\* --------------------------------------------- vault files found at start
KeyA == derive_key_from_password("A")
\* a note the program wrote: title t1, content c1, under password A
WrittenNote ==
    LET e == encrypt_note_content("c1", KeyA, 1) IN Note("t1", e.content, e.nonce)
\* the same note with its nonce text cut to 12 characters (9 bytes)
ShortNonceNote == [WrittenNote EXCEPT !.nonce = B64Encode(NonceBytes(1, 9))]
\* the same note with a ciphertext text that is not base64
MalformedNote == [WrittenNote EXCEPT !.content = [b64 |-> FALSE]]
\* the same note with a bit of the ciphertext flipped, or its end cut off
CorruptNote == [WrittenNote EXCEPT !.content.bytes.intact = FALSE]
\* a note under password A whose plaintext bytes are not UTF-8
NonUtf8Note ==
    [WrittenNote EXCEPT !.title = "t2", !.content.bytes.pt = NonUtf8Plain]

EditedNotes == {WrittenNote, ShortNonceNote, MalformedNote, CorruptNote, NonUtf8Note}

\* what vault.json may hold when the first invocation starts: nothing, an
\* empty file, unparseable contents, or a collection someone edited
InitFiles ==
    {NoFile, Truncated}
    \cup {[exists |-> TRUE, text |-> <<t>>] : t \in {JunkTok, ObjectTok, BadByteTok}}
    \cup {[exists |-> TRUE, text |-> Serialize(<<n>>)] : n \in EditedNotes}
    \cup {[exists |-> TRUE, text |-> Serialize(<<n, m>>)] : n, m \in EditedNotes}

\* ------------------------------------------------------------------- Init
InitProcs ==
    /\ pc = [p \in Procs |-> "idle"]
    /\ cmd = [p \in Procs |-> NoCmd]
    /\ key = [p \in Procs |-> NoKey]
    /\ notes = [p \in Procs |-> <<>>]
    /\ out = [p \in Procs |-> <<>>]
    /\ loaded = [p \in Procs |-> <<>>]
    /\ snap = [p \in Procs |-> NoFile]
    /\ saves = [p \in Procs |-> 0]
    /\ lastSaver = 0
    /\ prev = NoPrev

Init == fs \in InitFiles /\ InitProcs

\* ----------------------------------------------------------------- actions
\* main, lines 136-138: Args::parse, prompt_password, derive_key_from_password
Start(p, c, password) ==
    /\ pc[p] = "idle"
    /\ c.op = "New" => Len(fs.text) < MaxNotes + 2
    /\ pc' = [pc EXCEPT ![p] = "start"]
    /\ cmd' = [cmd EXCEPT ![p] = c]
    /\ key' = [key EXCEPT ![p] = derive_key_from_password(password)]
    /\ snap' = [snap EXCEPT ![p] = fs]
    /\ UNCHANGED <<fs, notes, out, loaded, saves, lastSaver, prev>>

\* main, line 139: let mut notes = load_notes()
Load(p) ==
    /\ pc[p] = "start"
    /\ LET r == load_notes(fs)
       IN  IF r.panic
           THEN /\ pc' = [pc EXCEPT ![p] = "aborted_load"]
                /\ UNCHANGED <<notes, loaded>>
           ELSE /\ pc' = [pc EXCEPT ![p] = "loaded"]
                /\ notes' = [notes EXCEPT ![p] = r.notes]
                /\ loaded' = [loaded EXCEPT ![p] = r.notes]
    /\ UNCHANGED <<fs, cmd, key, out, snap, saves, lastSaver, prev>>

\* VaultCommands::New up to the call of save_notes
New(p) ==
    /\ pc[p] = "loaded"
    /\ cmd[p].op = "New"
    /\ \E n \in NonceIds :
          LET e == encrypt_note_content(cmd[p].content, key[p], n)
          IN  notes' = [notes EXCEPT
                  ![p] = Push(@, Note(cmd[p].title, e.content, e.nonce))]
    /\ pc' = [pc EXCEPT ![p] = "save"]
    /\ UNCHANGED <<fs, cmd, key, out, loaded, snap, saves, lastSaver, prev>>

\* VaultCommands::List
List(p) ==
    /\ pc[p] = "loaded"
    /\ cmd[p].op = "List"
    /\ LET r == ListLoop(notes[p], key[p])
       IN  /\ out' = [out EXCEPT ![p] = <<ListHeader>> \o r.out]
           /\ pc' = [pc EXCEPT ![p] = IF r.panic THEN "aborted" ELSE "done"]
    /\ UNCHANGED <<fs, cmd, key, notes, loaded, snap, saves, lastSaver, prev>>

\* VaultCommands::Read
Read(p) ==
    /\ pc[p] = "loaded"
    /\ cmd[p].op = "Read"
    /\ LET r == ReadArm(notes[p], cmd[p].title, key[p])
       IN  /\ out' = [out EXCEPT ![p] = r.out]
           /\ pc' = [pc EXCEPT ![p] = IF r.panic THEN "aborted" ELSE "done"]
    /\ UNCHANGED <<fs, cmd, key, notes, loaded, snap, saves, lastSaver, prev>>

\* VaultCommands::Delete up to the call of save_notes
Delete(p) ==
    /\ pc[p] = "loaded"
    /\ cmd[p].op = "Delete"
    /\ LET len_before == Len(notes[p])
           r == Retain(notes[p], cmd[p].title, key[p])
       IN  IF r.panic
           THEN /\ pc' = [pc EXCEPT ![p] = "aborted"]
                /\ out' = [out EXCEPT ![p] = r.out]
                /\ UNCHANGED notes
           ELSE /\ notes' = [notes EXCEPT ![p] = r.kept]
                /\ IF ShouldSave(len_before, Len(r.kept))
                   THEN /\ pc' = [pc EXCEPT ![p] = "save"]
                        /\ out' = [out EXCEPT ![p] = r.out]
                   ELSE /\ pc' = [pc EXCEPT ![p] = "done"]
                        /\ out' = [out EXCEPT ![p] = r.out \o <<DeleteNothing>>]
    /\ UNCHANGED <<fs, cmd, key, loaded, snap, saves, lastSaver, prev>>

\* save_notes, line 129: File::create(VAULT_FILE)
FileCreate(p) ==
    /\ pc[p] = "save"
    /\ fs' = Truncated
    /\ saves' = [saves EXCEPT ![p] = @ + 1]
    /\ pc' = [pc EXCEPT ![p] = "write"]
    /\ UNCHANGED <<cmd, key, notes, out, loaded, snap, lastSaver, prev>>

\* save_notes, line 130: file.write_all(json), then the arm's last println
WriteAll(p) ==
    /\ pc[p] = "write"
    /\ fs' = WriteAt0(fs, Serialize(notes[p]))
    /\ lastSaver' = p
    /\ out' = [out EXCEPT ![p] = IF cmd[p].op = "New" THEN @ \o <<NoteAdded>> ELSE @]
    /\ pc' = [pc EXCEPT ![p] = "done"]
    /\ UNCHANGED <<cmd, key, notes, loaded, snap, saves, prev>>

\* the process is gone; the next invocation starts from scratch
Exit(p) ==
    /\ pc[p] \in {"done", "aborted", "aborted_load", "killed"}
    /\ prev' = IF /\ pc[p] = "done"
                  /\ cmd[p].op = "New"
                  /\ \A i \in 1..Len(loaded[p]) : loaded[p][i].title # cmd[p].title
               THEN [fresh |-> TRUE, title |-> cmd[p].title,
                     content |-> cmd[p].content, key |-> key[p]]
               ELSE NoPrev
    /\ pc' = [pc EXCEPT ![p] = "idle"]
    /\ cmd' = [cmd EXCEPT ![p] = NoCmd]
    /\ key' = [key EXCEPT ![p] = NoKey]
    /\ notes' = [notes EXCEPT ![p] = <<>>]
    /\ out' = [out EXCEPT ![p] = <<>>]
    /\ loaded' = [loaded EXCEPT ![p] = <<>>]
    /\ snap' = [snap EXCEPT ![p] = NoFile]
    /\ saves' = [saves EXCEPT ![p] = 0]
    /\ UNCHANGED <<fs, lastSaver>>

\* the process is terminated from outside, wherever it is
Kill(p) ==
    /\ pc[p] \in {"start", "loaded", "save", "write"}
    /\ pc' = [pc EXCEPT ![p] = "killed"]
    /\ UNCHANGED <<fs, cmd, key, notes, out, loaded, snap, saves, lastSaver, prev>>

\* --------------------------------------------------------- specifications
Invoke(p) == \E c \in Commands, w \in Passwords : Start(p, c, w)

\* one invocation after the other
Next ==
    \/ Invoke(1)
    \/ Load(1)
    \/ New(1)
    \/ List(1)
    \/ Read(1)
    \/ Delete(1)
    \/ FileCreate(1)
    \/ WriteAll(1)
    \/ Exit(1)

Spec == Init /\ [][Next]_vars

\* one invocation at a time, which may be terminated at any point
NextAbort ==
    \/ Invoke(1)
    \/ Load(1)
    \/ New(1)
    \/ List(1)
    \/ Read(1)
    \/ Delete(1)
    \/ FileCreate(1)
    \/ WriteAll(1)
    \/ Exit(1)
    \/ Kill(1)

SpecAbort == Init /\ [][NextAbort]_vars

\* two invocations, each run once, against the same file with no locking;
\* the file is absent or holds a collection the program wrote
ConcFiles ==
    {NoFile,
     [exists |-> TRUE, text |-> Serialize(<<>>)],
     [exists |-> TRUE, text |-> Serialize(<<WrittenNote>>)]}

InitConc == fs \in ConcFiles /\ InitProcs

NextConc ==
    \E p \in Procs :
        \/ Invoke(p)
        \/ Load(p)
        \/ New(p)
        \/ List(p)
        \/ Read(p)
        \/ Delete(p)
        \/ FileCreate(p)
        \/ WriteAll(p)

SpecConc == InitConc /\ [][NextConc]_vars

\* ------------------------------------------------------ vocabulary of claims
\* the note decrypts under the key: decrypt returned a plaintext
Decrypts(n, k) == Decrypt(n, k).tag = "Some"

\* the notes of ns that Delete(t) under k has to keep
RECURSIVE Retained(_, _, _)
Retained(ns, t, k) ==
    IF ns = <<>> THEN <<>>
    ELSE (IF Head(ns).title = t /\ Decrypts(Head(ns), k) THEN <<>> ELSE <<Head(ns)>>)
         \o Retained(Tail(ns), t, k)

\* the titles List under k has to print, in storage order
RECURSIVE DecryptableTitles(_, _)
DecryptableTitles(ns, k) ==
    IF ns = <<>> THEN <<>>
    ELSE (IF Decrypts(Head(ns), k) THEN <<ListedTitle(Head(ns).title)>> ELSE <<>>)
         \o DecryptableTitles(Tail(ns), k)

\* positions of the notes titled t
Titled(ns, t) == {i \in 1..Len(ns) : ns[i].title = t}

\* the file holds exactly the collection ns
Holds(f, ns) == f = [exists |-> TRUE, text |-> Serialize(ns)]

\* the file exists and its contents are not a note collection
Unparseable(f) == f.exists /\ (~ValidUtf8(f.text) \/ ~Parse(f.text).ok)

\* ------------------------------------------------------------------ claims

\* C1: for every loaded collection, title t and working key K, the collection
\* a Delete(t) invocation leaves behind is the loaded one without the notes
\* titled t that decrypt under K; every other note is kept, in order.
C1_DeleteRemovesExactly ==
    \A p \in Procs :
        (cmd[p].op = "Delete" /\ pc[p] \in {"done", "aborted"})
        => /\ ~load_notes(fs).panic
           /\ load_notes(fs).notes = Retained(loaded[p], cmd[p].title, key[p])

\* C2: an invocation calls save at most once, and only a New or a Delete with
\* at least one note titled t that decrypts under the working key calls it;
\* every other invocation leaves vault.json exactly as it found it.
C2_WritesOnlyWhenChanged ==
    \A p \in Procs :
        pc[p] # "idle" =>
            LET removable == {i \in Titled(loaded[p], cmd[p].title) :
                                 Decrypts(loaded[p][i], key[p])}
            IN  /\ saves[p] <= 1
                /\ saves[p] = 1 =>
                      \/ cmd[p].op = "New"
                      \/ cmd[p].op = "Delete" /\ removable # {}
                /\ saves[p] = 0 => fs = snap[p]
                /\ (\/ cmd[p].op \in {"List", "Read"}
                    \/ cmd[p].op = "Delete" /\ pc[p] # "start" /\ removable = {})
                   => (saves[p] = 0 /\ fs = snap[p])

\* a Delete found notes of its title, none of which decrypts, and has ended
C2_Witness ==
    /\ pc[1] = "done"
    /\ cmd[1].op = "Delete"
    /\ Titled(loaded[1], cmd[1].title) # {}
    /\ Len(notes[1]) = Len(loaded[1])
    /\ snap[1].exists
    /\ fs = snap[1]

\* C3: Read(t) reports not-found when no note is titled t, the plaintext of
\* the first note titled t when that note decrypts under the working key, and
\* otherwise a decryption failure, never aborting.
C3_ReadFirstMatch ==
    \A p \in Procs :
        (cmd[p].op = "Read" /\ pc[p] \in {"done", "aborted"}) =>
            LET hits == Titled(loaded[p], cmd[p].title)
                first == CHOOSE i \in hits : \A j \in hits : i <= j
            IN  /\ pc[p] = "done"
                /\ IF hits = {} THEN out[p] = <<ReadNotFound>>
                   ELSE IF Decrypts(loaded[p][first], key[p])
                        THEN out[p] = <<ReadContent(Decrypt(loaded[p][first], key[p]).val)>>
                        ELSE out[p] = <<ReadFailed>>

\* C4: a New(t, c) that completed on a collection with no note titled t,
\* followed by a Read(t) invocation under the same password, reports exactly c.
C4_CreateThenRead ==
    \A p \in Procs :
        (/\ cmd[p].op = "Read"
         /\ Ended(p)
         /\ prev.fresh
         /\ prev.title = cmd[p].title
         /\ prev.key = key[p])
        => (pc[p] = "done" /\ out[p] = <<ReadContent(prev.content)>>)

\* a Read that followed such a New under the same password has ended, with
\* other notes stored in front of the new one
C4_Witness ==
    /\ cmd[1].op = "Read"
    /\ Ended(1)
    /\ prev.fresh
    /\ prev.title = cmd[1].title
    /\ prev.key = key[1]
    /\ prev.content = "c2"
    /\ Len(loaded[1]) = 3

\* C5: List under K prints exactly the titles of the loaded notes that
\* decrypt under K, one per note and in storage order.
C5_ListExactlyDecryptable ==
    \A p \in Procs :
        (cmd[p].op = "List" /\ pc[p] \in {"done", "aborted"})
        => out[p] = <<ListHeader>> \o DecryptableTitles(loaded[p], key[p])

\* C6: a New(t, c) that loaded a collection succeeds, and the file then holds
\* the records the file held before, unchanged and in order, followed by
\* exactly one new record titled t.
C6_CreateAppends ==
    \A p \in Procs :
        (cmd[p].op = "New" /\ pc[p] \notin {"idle", "start", "aborted_load"}) =>
            /\ pc[p] # "aborted"
            /\ loaded[p] = load_notes(snap[p]).notes
            /\ pc[p] = "done" =>
                  LET r == Parse(fs.text)
                      n == Len(loaded[p])
                  IN  /\ fs.exists
                      /\ ValidUtf8(fs.text)
                      /\ r.ok
                      /\ Len(r.notes) = n + 1
                      /\ SubSeq(r.notes, 1, n) = loaded[p]
                      /\ r.notes[n + 1].title = cmd[p].title
                      /\ out[p] = <<NoteAdded>>

\* a New has been saved behind two records, one with its own title and one
\* that does not decrypt under its key
C6_Witness ==
    /\ cmd[1].op = "New"
    /\ pc[1] = "done"
    /\ Len(loaded[1]) = 2
    /\ \E i \in 1..2 : loaded[1][i].title = cmd[1].title
    /\ \E i \in 1..2 : ~Decrypts(loaded[1][i], key[1])
    /\ loaded[1][1] # loaded[1][2]

\* C7: decrypt returns a plaintext or the one failure for every stored text
\* and key, so no List, Read or Delete aborts on a collection load returned.
C7_DecryptNeverAborts ==
    \A p \in Procs : pc[p] # "aborted"

\* C8: for a file that exists and cannot be parsed as a note collection, load
\* returns the empty collection and never aborts.
C8_LoadUnparseableIsEmpty ==
    \A p \in Procs :
        (pc[p] \notin {"idle", "start"} /\ Unparseable(snap[p]))
        => (pc[p] # "aborted_load" /\ loaded[p] = <<>>)

\* C9: after the process was terminated, the file holds the complete
\* collection it held when the invocation began or the complete new one.
C9_AbortLeavesWholeFile ==
    \A p \in Procs :
        pc[p] = "killed" => (fs = snap[p] \/ Holds(fs, notes[p]))

\* C10: when both concurrent invocations have finished, the file holds the
\* collection of the invocation whose save ran last.
C10_LastSaveWins ==
    ((\A p \in Procs : pc[p] = "done") /\ lastSaver # 0)
    => Holds(fs, notes[lastSaver])

====
